---- MODULE Spec2Model ----
(***************************************************************************)
(* Model of the bulk IP analysis of ztkent/dev-tools:                      *)
(*   - the HTTP handler BatchAnalyzeIPs (internal/routes, IP API handler), *)
(*   - the service method BulkAnalyzeIPs and the goroutines it starts,     *)
(*   - the single-item resolver AnalyzeIP with its helpers,                *)
(*   - the HTTP handler LookupDNS, the service method LookupDNS and the    *)
(*     goroutines of lookupAll.                                            *)
(* Timestamps and durations are left out: no modelled decision reads them. *)
(***************************************************************************)
EXTENDS Bags, FiniteSets, Integers, Sequences, TLC

VARIABLES
    request,     \* body of the POST /api/ip/batch request
    hpc,         \* position of the handler BatchAnalyzeIPs
    status,      \* HTTP status the handler has written (0: none yet)
    body,        \* what the handler has written as the response body
    ctxDone,     \* TRUE once the request context is cancelled or timed out
    upstream,    \* what the outside world answers during this request
    pc,          \* position of BulkAnalyzeIPs
    tasks,       \* the goroutines started by BulkAnalyzeIPs, a bag of [targetIP, pc]
    semaphore,   \* number of tokens held in the semaphore channel
    resultChan,  \* the buffered channel of analysisResult
    result,      \* the BulkAnalysisResult under construction
    i,           \* index of the collection loop
    retErr,      \* the error BulkAnalyzeIPs returned
    dnsRequest,  \* the /api/dns/lookup request
    zone,        \* what the DNS resolver answers during this request
    dnsHpc,      \* position of the handler LookupDNS
    dnsStatus,   \* HTTP status the handler LookupDNS has written (0: none yet)
    dnsCall,     \* the arguments the handler gave the service method LookupDNS
    dnsPc,       \* position of the service method LookupDNS
    lookups,     \* the goroutines started by lookupAll: [rType, ctx, pc]
    dnsChan,     \* the buffered channel resultChan of lookupAll
    allRecords,  \* the slice allRecords of lookupAll
    dnsI,        \* index of the collection loop of lookupAll
    dnsRet,      \* what the service method LookupDNS returned
    resolved,    \* the record types for which the resolver has been asked
    svc,         \* a direct call of a method of the service: its name, its
                 \* arguments, its position, the state of its context and
                 \* the locals of AnalyzeIP, and what it returned
    inv          \* two concurrent invocations of BulkAnalyzeIPs: for each its
                 \* argument IPs and its locals [pc, tasks, semaphore,
                 \* resultChan, result, i, retErr]

dnsVars == <<dnsRequest, zone, dnsHpc, dnsStatus, dnsCall, dnsPc, lookups, dnsChan,
             allRecords, dnsI, dnsRet, resolved>>

bulkVars == <<request, hpc, status, body, ctxDone, upstream, pc, tasks, semaphore,
              resultChan, result, i, retErr>>

vars == <<request, hpc, status, body, ctxDone, upstream, pc, tasks, semaphore,
          resultChan, result, i, retErr, dnsVars, inv, svc>>

----------------------------------------------------------------------------
(* Program constants *)

\* capacity of the semaphore channel: make(chan struct{}, 10)
SemaphoreCap == 10

\* the handler's cap on len(request.IPs)
MaxIPs == 100

(* Bounds of the model *)

\* every list over Targets up to this length is a request
MaxShort == 2

\* the long requests have SemaphoreCap + 1 .. SemaphoreCap + MaxOver targets
MaxOver == 1

----------------------------------------------------------------------------
(* net.IP values are byte sequences; ParseIP yields the 16-byte form *)

NilIP == <<>>

V4InV6(a, b, c, d) == <<0, 0, 0, 0, 0, 0, 0, 0, 0, 0, 255, 255, a, b, c, d>>

\* net.ParseIP on the strings the model submits (nil when the text is no IP)
ParseIP(s) ==
    CASE s = "1.1.1.1"   -> V4InV6(1, 1, 1, 1)
      [] s = "8.8.8.8"   -> V4InV6(8, 8, 8, 8)
      [] s = "10.0.0.1"  -> V4InV6(10, 0, 0, 1)
      [] s = "127.0.0.1" -> V4InV6(127, 0, 0, 1)
      [] s = "::1"       -> <<0, 0, 0, 0, 0, 0, 0, 0, 0, 0, 0, 0, 0, 0, 0, 1>>
      [] s = "224.0.0.1" -> V4InV6(224, 0, 0, 1)
      [] s = "fe80::1"   -> <<254, 128, 0, 0, 0, 0, 0, 0, 0, 0, 0, 0, 0, 0, 0, 1>>
      [] OTHER           -> NilIP

\* net.IP.To4: the 4-byte form of an IPv4 address, nil otherwise
To4(ip) ==
    IF Len(ip) = 4 THEN ip
    ELSE IF Len(ip) = 16 /\ (\A k \in 1..10 : ip[k] = 0) /\ ip[11] = 255 /\ ip[12] = 255
         THEN SubSeq(ip, 13, 16)
         ELSE NilIP

IsPrivate(ip) ==
    LET ip4 == To4(ip) IN
    IF ip4 # NilIP
    THEN \/ ip4[1] = 10
         \/ (ip4[1] = 172 /\ ip4[2] \div 16 = 1)
         \/ (ip4[1] = 192 /\ ip4[2] = 168)
    ELSE Len(ip) = 16 /\ ip[1] \div 2 = 126

IsLoopback(ip) ==
    LET ip4 == To4(ip) IN
    IF ip4 # NilIP
    THEN ip4[1] = 127
    ELSE Len(ip) = 16 /\ (\A k \in 1..15 : ip[k] = 0) /\ ip[16] = 1

IsMulticast(ip) ==
    LET ip4 == To4(ip) IN
    IF ip4 # NilIP
    THEN ip4[1] \div 16 = 14
    ELSE Len(ip) = 16 /\ ip[1] = 255

IsLinkLocalUnicast(ip) ==
    LET ip4 == To4(ip) IN
    IF ip4 # NilIP
    THEN ip4[1] = 169 /\ ip4[2] = 254
    ELSE Len(ip) = 16 /\ ip[1] = 254 /\ ip[2] \div 64 = 2

getIPVersion(ip) == IF To4(ip) # NilIP THEN "IPv4" ELSE "IPv6"

getIPType(ip) ==
    IF IsPrivate(ip) THEN "private"
    ELSE IF IsLoopback(ip) THEN "loopback"
    ELSE IF IsMulticast(ip) THEN "multicast"
    ELSE IF IsLinkLocalUnicast(ip) THEN "link-local"
    ELSE "public"

\* getSecurityInfo: the SecInfo is represented by its Reputation
getSecurityInfo(ip) == IF IsPrivate(ip) THEN "good" ELSE "neutral"

----------------------------------------------------------------------------
(* The outside world of one request *)

\* ipinfo: "ok" answers 200 with JSON, "nan" answers 200 with JSON whose loc
\* is "NaN,NaN", "limited" answers a non-200 status with a JSON body, "down"
\* does not answer; resolver: reverse DNS answers or not
Worlds == [ipinfo : {"ok", "nan", "limited", "down"}, resolver : BOOLEAN]

AllUp == [ipinfo |-> "ok", resolver |-> TRUE]

\* everything answers, and ipinfo.io gives coordinates that are not numbers
AllUpNaN == [ipinfo |-> "nan", resolver |-> TRUE]

AllDown == [ipinfo |-> "down", resolver |-> FALSE]

\* the worlds a batch request is run in: everything answers, with or without
\* coordinates that are numbers, or every outbound call times out
RequestWorlds == {AllUp, AllUpNaN, AllDown}

getGeolocationIgnoresCtx(done, up) == up.ipinfo \in {"ok", "nan"}

\* getGeolocation: an HTTP GET under ctx; needs a 200 answer
getGeolocationOK(done, up) == ~done /\ up.ipinfo \in {"ok", "nan"}

\* getISPInfo: an HTTP GET under ctx; the status is not looked at
getISPInfoOK(done, up) == ~done /\ up.ipinfo \in {"ok", "nan", "limited"}

\* getDNSInfo: net.LookupAddr, which does not take ctx
getDNSInfoOK(done, up) == up.resolver

\* optional fields of IPInfo: "nil" when absent
Opt(present, v) == IF present THEN v ELSE "nil"

\* parseFloat on the halves of loc: Sscanf reads "NaN" as a float64, so the
\* GeoInfo of the "nan" world has Latitude and Longitude NaN
GeoInfo(up) == IF up.ipinfo = "nan" THEN "geoNaN" ELSE "geo"

\* the *GeoInfo AnalyzeIP is left with after getGeolocation
getGeolocation(done, up) == Opt(getGeolocationOK(done, up), GeoInfo(up))

\* the *ISPInfo AnalyzeIP is left with after getISPInfo
getISPInfo(done, up) == Opt(getISPInfoOK(done, up), "isp")

\* the *DNSInfo AnalyzeIP is left with after getDNSInfo
getDNSInfo(done, up) == Opt(getDNSInfoOK(done, up), "dns")

NoInfo == [IP |-> "", Version |-> "", Type |-> "", Geolocation |-> "nil",
           ISP |-> "nil", Security |-> "nil", DNS |-> "nil"]

\* an enrichment error is returned instead of leaving the field absent
AnalyzeIPStrict(ipStr, geo, isp, dns) ==
    LET ip == ParseIP(ipStr) IN
    IF ip = NilIP
    THEN [info |-> NoInfo, err |-> "invalid IP address"]
    ELSE IF geo = "nil"
    THEN [info |-> NoInfo, err |-> "geolocation failed"]
    ELSE [info |-> [IP          |-> ipStr,
                    Version     |-> getIPVersion(ip),
                    Type        |-> getIPType(ip),
                    Geolocation |-> geo,
                    ISP         |-> isp,
                    Security    |-> getSecurityInfo(ip),
                    DNS         |-> dns],
          err |-> "nil"]

\* a failure of the reverse lookup is returned as an error
AnalyzeIPNeedsDNS(ipStr, geo, isp, dns) ==
    LET ip == ParseIP(ipStr) IN
    IF ip = NilIP
    THEN [info |-> NoInfo, err |-> "invalid IP address"]
    ELSE IF dns = "nil"
    THEN [info |-> NoInfo, err |-> "reverse lookup failed"]
    ELSE [info |-> [IP          |-> ipStr,
                    Version     |-> getIPVersion(ip),
                    Type        |-> getIPType(ip),
                    Geolocation |-> geo,
                    ISP         |-> isp,
                    Security    |-> getSecurityInfo(ip),
                    DNS         |-> dns],
          err |-> "nil"]

\* what AnalyzeIP returns for ipStr when its three enrichment calls have left
\* it with geo, isp and dns: (info, err). The enrichment steps leave their
\* field absent when they fail; only the parse decides the error
AnalyzeIPWith(ipStr, geo, isp, dns) ==
    LET ip == ParseIP(ipStr) IN
    IF ip = NilIP
    THEN [info |-> NoInfo, err |-> "invalid IP address"]
    ELSE [info |-> [IP          |-> ipStr,
                    Version     |-> getIPVersion(ip),
                    Type        |-> getIPType(ip),
                    Geolocation |-> geo,
                    ISP         |-> isp,
                    Security    |-> getSecurityInfo(ip),
                    DNS         |-> dns],
          err |-> "nil"]

\* the text of the error is kept in the entry
ErrorInfoDetailed(targetIP) ==
    [IP |-> targetIP, Version |-> "Unknown", Type |-> "invalid IP address",
     Geolocation |-> "nil", ISP |-> "nil", Security |-> "nil", DNS |-> "nil"]

ErrorInfoAnonymous(targetIP) ==
    [IP |-> "", Version |-> "Unknown", Type |-> "error",
     Geolocation |-> "nil", ISP |-> "nil", Security |-> "nil", DNS |-> "nil"]

\* the minimal error info a goroutine substitutes when AnalyzeIP fails
ErrorInfo(targetIP) ==
    [IP |-> targetIP, Version |-> "Unknown", Type |-> "error",
     Geolocation |-> "nil", ISP |-> "nil", Security |-> "nil", DNS |-> "nil"]

\* the analysisResult goroutine t sends for its target, AnalyzeIP having been
\* left with t.geo, t.isp and t.dns by its enrichment calls
TaskResult(t) ==
    LET r == AnalyzeIPWith(t.targetIP, t.geo, t.isp, t.dns) IN
    [info |-> IF r.err # "nil" THEN ErrorInfo(t.targetIP) ELSE r.info,
     err  |-> r.err]

----------------------------------------------------------------------------
(* Requests *)

Targets == {"1.1.1.1", "not-an-ip", "8.8.8.8"}

ShortLists == UNION {[1..n -> Targets] : n \in 0..MaxShort}

\* the list of the documented example: one failing target between two good ones
ExampleList == <<"1.1.1.1", "not-an-ip", "8.8.8.8">>

\* a list of n copies of one target
Uniform(n, t) == [j \in 1..n |-> t]

\* the long lists: more targets than the semaphore has tokens, none of which
\* parses, so that their goroutines have no enrichment call to wait for
LongLists ==
    {Uniform(n, "not-an-ip") : n \in (SemaphoreCap + 1)..(SemaphoreCap + MaxOver)}

\* a body that does not decode, or a decoded BulkAnalysisRequest
Requests ==
    {[malformed |-> TRUE, IPs |-> <<>>]}
    \cup {[malformed |-> FALSE, IPs |-> l] :
             l \in ShortLists \cup {ExampleList} \cup LongLists}

----------------------------------------------------------------------------
(* Helpers on the bag of goroutines *)

\* a goroutine of BulkAnalyzeIPs: its target, its position, and what the
\* enrichment calls of its AnalyzeIP have returned so far. The positions:
\* "waiting" for a token; "running" with a token, AnalyzeIP called; "atISP",
\* "atDNS" before the call of getISPInfo, of getDNSInfo; "atSend" before the
\* send; "sent"; "done"
Task(targetIP, p) ==
    [targetIP |-> targetIP, pc |-> p, geo |-> "nil", isp |-> "nil", dns |-> "nil"]

\* the positions of a goroutine that holds a token and has not sent
InFlight == {"running", "atISP", "atDNS", "atSend"}

RECURSIVE SpawnAllCaptureLast(_, _)
SpawnAllCaptureLast(ips, last) ==
    IF ips = <<>> THEN EmptyBag
    ELSE SetToBag({Task(last, "waiting")}) (+) SpawnAllCaptureLast(Tail(ips), last)

\* every goroutine reads the loop variable after the loop has ended
SpawnAllShared(ips) ==
    IF ips = <<>> THEN EmptyBag ELSE SpawnAllCaptureLast(ips, ips[Len(ips)])

RECURSIVE SpawnAll(_)
\* the goroutines of the loop over request.IPs, each started with its own
\* targetIP and waiting for the semaphore
SpawnAll(ips) ==
    IF ips = <<>> THEN EmptyBag
    ELSE SetToBag({Task(Head(ips), "waiting")}) (+) SpawnAll(Tail(ips))

\* a goroutine whose analysis failed calls AnalyzeIP once more
MoveRetryOnce(bag, t, p) ==
    IF p = "sent" /\ ParseIP(t.targetIP) = NilIP /\ Len(resultChan) = 0
    THEN bag
    ELSE (bag (-) SetToBag({t})) (+) SetToBag({Task(t.targetIP, p)})

\* goroutine t goes to position p, outside AnalyzeIP
Move(bag, t, p) == (bag (-) SetToBag({t})) (+) SetToBag({Task(t.targetIP, p)})

\* goroutine t goes on inside AnalyzeIP and becomes u
Step(bag, t, u) == (bag (-) SetToBag({t})) (+) SetToBag({u})

\* number of goroutines at position p
CountAt(bag, p) ==
    BagCardinality([t \in {x \in BagToSet(bag) : x.pc = p} |-> bag[t]])

EmptyResult == [Results |-> <<>>, Summary |-> [Total |-> 0, Successful |-> 0, Failed |-> 0]]

----------------------------------------------------------------------------
(* The decisions of the handler and of BulkAnalyzeIPs *)

ValidateOffByOne(req) ==
    IF req.malformed THEN "Invalid request body"
    ELSE IF Len(req.IPs) = 0 THEN "No IPs provided"
    ELSE IF Len(req.IPs) >= MaxIPs THEN "Too many IPs (maximum 100)"
    ELSE "ok"

\* the handler's boundary validation: the message of the 400 answer, or "ok"
Validate(req) ==
    IF req.malformed THEN "Invalid request body"
    ELSE IF Len(req.IPs) = 0 THEN "No IPs provided"
    ELSE IF Len(req.IPs) > MaxIPs THEN "Too many IPs (maximum 100)"
    ELSE "ok"

CanAcquireUnbounded(sem) == TRUE

CanSendUnbuffered(ch, n) == Len(ch) < 1

\* semaphore <- struct{}{} goes through while the channel is not full
CanAcquire(sem) == sem < SemaphoreCap

\* resultChan <- ... goes through while the channel, of capacity n, is not full
CanSend(ch, n) == Len(ch) < n

ReleaseTokenNever(sem, t) == sem

ReleaseTokenOnSuccess(sem, t) ==
    IF ParseIP(t.targetIP) = NilIP THEN sem ELSE sem - 1

\* the deferred <-semaphore of goroutine t
ReleaseToken(sem, t) == sem - 1

TallyStopsAtError(r, res) ==
    IF r.Summary.Failed > 0 THEN r
    ELSE [r EXCEPT !.Results = Append(@, res.info),
                   !.Summary.Successful = IF res.err = "nil" THEN @ + 1 ELSE @,
                   !.Summary.Failed = IF res.err = "nil" THEN @ ELSE @ + 1]

TallySuccessOnly(r, res) ==
    IF res.err = "nil"
    THEN [r EXCEPT !.Results = Append(@, res.info), !.Summary.Successful = @ + 1]
    ELSE r

\* one round of the collection loop on the received res
Tally(r, res) ==
    [r EXCEPT !.Results = Append(@, res.info),
              !.Summary.Successful = IF res.err = "nil" THEN @ + 1 ELSE @,
              !.Summary.Failed = IF res.err = "nil" THEN @ ELSE @ + 1]

LoopDoneEarly(k, n) == k >= n - 1

LoopDoneOnCancel(k, n) == k >= n \/ ctxDone

\* the collection loop ends: not (i < len(request.IPs))
LoopDone(k, n) == k >= n

ReturnErrAllFailed(r) ==
    IF r.Summary.Successful = 0 THEN "all analyses failed" ELSE "nil"

\* the error BulkAnalyzeIPs returns with result r
ReturnErr(r) == "nil"

\* json.NewEncoder(w).Encode(r): its error. encoding/json refuses a float64
\* that is NaN, and writes nothing then
Encode(r) ==
    IF \E j \in 1..Len(r.Results) : r.Results[j].Geolocation = "geoNaN"
    THEN "json: unsupported value: NaN"
    ELSE "nil"

\* the status the handler answers with after BulkAnalyzeIPs returned err
ResponseStatus(err) == IF err # "nil" THEN 500 ELSE 200

----------------------------------------------------------------------------
(* GetClientIP: the client address of a request *)

\* strings.Index(s, c) for a one-character c: the position, from 0, of its
\* first occurrence in s, or -1
Index(s, c) ==
    LET hits == {k \in 1..Len(s) : SubSeq(s, k, k) = c} IN
    IF hits = {} THEN -1 ELSE (CHOOSE k \in hits : \A j \in hits : k <= j) - 1

\* strings.LastIndex(s, c) for a one-character c
LastIndex(s, c) ==
    LET hits == {k \in 1..Len(s) : SubSeq(s, k, k) = c} IN
    IF hits = {} THEN -1 ELSE (CHOOSE k \in hits : \A j \in hits : k >= j) - 1

\* the white space strings.TrimSpace removes, among the characters of the
\* values the model submits
IsSpace(c) == c \in {" ", "\t"}

RECURSIVE TrimLeft(_)
TrimLeft(s) ==
    IF Len(s) > 0 /\ IsSpace(SubSeq(s, 1, 1)) THEN TrimLeft(SubSeq(s, 2, Len(s))) ELSE s

RECURSIVE TrimRight(_)
TrimRight(s) ==
    IF Len(s) > 0 /\ IsSpace(SubSeq(s, Len(s), Len(s)))
    THEN TrimRight(SubSeq(s, 1, Len(s) - 1))
    ELSE s

\* strings.TrimSpace
TrimSpace(s) == TrimRight(TrimLeft(s))

\* the error answer of net.SplitHostPort
addrErr(why) == [host |-> "", err |-> why]

\* net.SplitHostPort: (host, err), the port left out
SplitHostPort(hostport) ==
    LET last == LastIndex(hostport, ":") IN
    IF last < 0 THEN addrErr("missing port in address")
    ELSE LET bracketed == SubSeq(hostport, 1, 1) = "["
             end == Index(hostport, "]")
             host == IF bracketed THEN SubSeq(hostport, 2, end)
                                  ELSE SubSeq(hostport, 1, last)
             j == IF bracketed THEN 1 ELSE 0
             k == IF bracketed THEN end + 1 ELSE 0
         IN
         IF bracketed /\ end < 0 THEN addrErr("missing ']' in address")
         ELSE IF bracketed /\ end + 1 = Len(hostport)
         THEN addrErr("missing port in address")
         ELSE IF bracketed /\ end + 1 # last
         THEN IF SubSeq(hostport, end + 2, end + 2) = ":"
              THEN addrErr("too many colons in address")
              ELSE addrErr("missing port in address")
         ELSE IF ~bracketed /\ Index(host, ":") >= 0
         THEN addrErr("too many colons in address")
         ELSE IF Index(SubSeq(hostport, j + 1, Len(hostport)), "[") >= 0
         THEN addrErr("unexpected '[' in address")
         ELSE IF Index(SubSeq(hostport, k + 1, Len(hostport)), "]") >= 0
         THEN addrErr("unexpected ']' in address")
         ELSE [host |-> host, err |-> "nil"]

headersForwardedForFirst ==
    <<"X-Forwarded-For", "CF-Connecting-IP", "True-Client-IP", "X-Real-IP",
      "X-Client-IP", "X-Forwarded", "X-Cluster-Client-IP", "Forwarded-For", "Forwarded">>

\* the headers GetClientIP looks at, in its order
headers ==
    <<"CF-Connecting-IP", "True-Client-IP", "X-Real-IP", "X-Forwarded-For",
      "X-Client-IP", "X-Forwarded", "X-Cluster-Client-IP", "Forwarded-For", "Forwarded">>

\* the text GetClientIP validates for the header value v: what precedes the
\* first comma, trimmed, when there is a comma
HeaderIP(v) ==
    IF Index(v, ",") # -1 THEN TrimSpace(SubSeq(v, 1, Index(v, ","))) ELSE v

\* the fallback of GetClientIP: the host of RemoteAddr, or RemoteAddr as it is
\* when it does not split
RemoteHost(remoteAddr) ==
    LET hp == SplitHostPort(remoteAddr) IN
    IF hp.err # "nil" THEN remoteAddr ELSE hp.host

RECURSIVE GetClientIPFrom(_, _)
\* the loop of GetClientIP from the k-th header on, and its fallback
GetClientIPFrom(r, k) ==
    IF k > Len(headers) THEN RemoteHost(r.RemoteAddr)
    ELSE LET v == r.Header[headers[k]] IN
         IF v # "" /\ ParseIP(HeaderIP(v)) # NilIP THEN HeaderIP(v)
         ELSE GetClientIPFrom(r, k + 1)

\* GetClientIP(r)
GetClientIP(r) == GetClientIPFrom(r, 1)

----------------------------------------------------------------------------
(* DNS lookups: the answers of the resolver and the per-type lookups *)

\* net.IP.String on the addresses the resolver answers with
IPString(ip) ==
    LET ip4 == To4(ip) IN
    IF ip4 # NilIP
    THEN ToString(ip4[1]) \o "." \o ToString(ip4[2]) \o "."
         \o ToString(ip4[3]) \o "." \o ToString(ip4[4])
    ELSE IF IsLoopback(ip) THEN "::1" ELSE "?"

\* an answer of the resolver: an error, or a list of values
Answer(vals) == [ok |-> TRUE, vals |-> vals]

NoAnswer == [ok |-> FALSE, vals |-> <<>>]

\* every kind of record exists; the name has an IPv4 and an IPv6 address
ZoneFull ==
    [ip    |-> Answer(<<ParseIP("1.1.1.1"), ParseIP("::1")>>),
     mx    |-> Answer(<<[Pref |-> 10, Host |-> "mail.example.com."]>>),
     ns    |-> Answer(<<"ns1.example.com.", "ns2.example.com.">>),
     txt   |-> Answer(<<"v=spf1 -all">>),
     cname |-> Answer(<<"example.com.">>),
     addr  |-> Answer(<<"one.one.one.one.">>)]

\* some lookups fail; the name has only an IPv4 address
ZonePartial ==
    [ip    |-> Answer(<<ParseIP("8.8.8.8")>>),
     mx    |-> NoAnswer,
     ns    |-> Answer(<<"ns1.example.com.">>),
     txt   |-> NoAnswer,
     cname |-> Answer(<<"example.com.">>),
     addr  |-> NoAnswer]

\* the resolver answers nothing
ZoneDown ==
    [ip |-> NoAnswer, mx |-> NoAnswer, ns |-> NoAnswer, txt |-> NoAnswer,
     cname |-> NoAnswer, addr |-> NoAnswer]

Zones == {ZoneFull, ZonePartial, ZoneDown}

\* the TTL every record is given
DefaultTTL == 300

DNSRecord(name, type, value) ==
    [Name |-> name, Type |-> type, Value |-> value, TTL |-> DefaultTTL]

\* the records the loop of a lookup builds from the values, one each
RecordsOf(domain, type, values) ==
    [k \in 1..Len(values) |-> DNSRecord(domain, type, values[k])]

Found(records) == [records |-> records, err |-> "nil"]

LookupError(what) == [records |-> <<>>, err |-> what]

lookupA(z, domain) ==
    IF ~z.ip.ok THEN LookupError("no such host")
    ELSE LET ips == SelectSeq(z.ip.vals, LAMBDA ip : To4(ip) # NilIP) IN
         Found(RecordsOf(domain, "A", [k \in 1..Len(ips) |-> IPString(ips[k])]))

lookupAAAA(z, domain) ==
    IF ~z.ip.ok THEN LookupError("no such host")
    ELSE LET ips == SelectSeq(z.ip.vals, LAMBDA ip : To4(ip) = NilIP) IN
         Found(RecordsOf(domain, "AAAA", [k \in 1..Len(ips) |-> IPString(ips[k])]))

lookupMX(z, domain) ==
    IF ~z.mx.ok THEN LookupError("no such host")
    ELSE Found(RecordsOf(domain, "MX",
                         [k \in 1..Len(z.mx.vals) |->
                             ToString(z.mx.vals[k].Pref) \o " " \o z.mx.vals[k].Host]))

lookupNS(z, domain) ==
    IF ~z.ns.ok THEN LookupError("no such host")
    ELSE Found(RecordsOf(domain, "NS", z.ns.vals))

lookupTXT(z, domain) ==
    IF ~z.txt.ok THEN LookupError("no such host")
    ELSE Found(RecordsOf(domain, "TXT", z.txt.vals))

lookupCNAME(z, domain) ==
    IF ~z.cname.ok THEN LookupError("no such host")
    ELSE Found(<<DNSRecord(domain, "CNAME", z.cname.vals[1])>>)

lookupPTR(z, domain) ==
    IF ~z.addr.ok THEN LookupError("no such host")
    ELSE Found(RecordsOf(domain, "PTR", z.addr.vals))

ToUpperIdentity(s) == s

\* strings.ToUpper on the record types the model submits
ToUpper(s) ==
    CASE s = "a"   -> "A"
      [] s = "mx"  -> "MX"
      [] s = "all" -> "ALL"
      [] s = "srv" -> "SRV"
      [] OTHER     -> s

AllTypesNoCNAME == <<"A", "AAAA", "MX", "NS", "TXT">>

\* the record types lookupAll asks for, in its order
AllTypes == <<"A", "AAAA", "MX", "NS", "TXT", "CNAME">>

SingleTypes == {"A", "AAAA", "MX", "NS", "TXT", "CNAME", "PTR"}

\* the switch of the service method LookupDNS on a type other than ALL
lookupType(z, domain, rType) ==
    CASE rType = "A"     -> lookupA(z, domain)
      [] rType = "AAAA"  -> lookupAAAA(z, domain)
      [] rType = "MX"    -> lookupMX(z, domain)
      [] rType = "NS"    -> lookupNS(z, domain)
      [] rType = "TXT"   -> lookupTXT(z, domain)
      [] rType = "CNAME" -> lookupCNAME(z, domain)
      [] rType = "PTR"   -> lookupPTR(z, domain)

NoDNSResult == [Domain |-> "", Records |-> <<>>]

\* what the service method LookupDNS returns: (result, err) and whether it
\* asked the resolver
Returns(res, err, asked) == [result |-> res, err |-> err, asked |-> asked]

\* the service method LookupDNS(ctx, domain, recordType) for a record type
\* other than ALL
LookupDNSOne(z, domain, recordType) ==
    IF domain = "" THEN Returns(NoDNSResult, "domain cannot be empty", FALSE)
    ELSE IF ToUpper(recordType) \notin SingleTypes
    THEN Returns(NoDNSResult, "unsupported record type", FALSE)
    ELSE LET r == lookupType(z, domain, ToUpper(recordType)) IN
         IF r.err # "nil"
         THEN Returns(NoDNSResult, "DNS lookup failed", TRUE)
         ELSE Returns([Domain |-> domain, Records |-> r.records], "nil", TRUE)

\* the context a goroutine of lookupAll hands to LookupDNS
LookupAllCtx == "background"

\* a goroutine of lookupAll
Lookup(rType, ctx, p) == [rType |-> rType, ctx |-> ctx, pc |-> p]

\* what the goroutine for rType sends: the records, or an empty slice when
\* its LookupDNS fails
LookupSends(z, domain, rType) ==
    LET r == LookupDNSOne(z, domain, rType) IN
    IF r.err = "nil" THEN r.result.Records ELSE <<>>

GatherLast(all, records) == records

\* allRecords = append(allRecords, records...)
Gather(all, records) == all \o records

lookupAllFailsWhenEmpty(domain, all) ==
    IF all = <<>>
    THEN Returns(NoDNSResult, "DNS lookup failed", TRUE)
    ELSE Returns([Domain |-> domain, Records |-> all], "nil", TRUE)

\* lookupAll returns allRecords, nil and LookupDNS returns the result
lookupAllReturns(domain, all) ==
    Returns([Domain |-> domain, Records |-> all], "nil", TRUE)

DefaultTypeNone(recordType) == recordType

\* the handler's default record type
DefaultType(recordType) == IF recordType = "" THEN "A" ELSE recordType

\* the handler's validation: the message of the 400 answer, or "ok"
DnsValidate(req) ==
    IF req.method = "POST" /\ req.malformed THEN "Invalid JSON request"
    ELSE IF req.domain = "" THEN "Domain required"
    ELSE "ok"

\* the two invocations of BulkAnalyzeIPs that run concurrently
Invocations == {1, 2}

ChanOfShared(k) == 1

\* the invocation whose resultChan a goroutine of invocation k sends to:
\* resultChan is a local variable of the invocation
ChanOf(k) == k

\* the invocation whose semaphore a goroutine of invocation k uses:
\* semaphore is a local variable of the invocation
SemOf(k) == k

\* an invocation that has not been called
NotCalled(ips) ==
    [IPs |-> ips, pc |-> "idle", tasks |-> EmptyBag, semaphore |-> 0,
     resultChan |-> <<>>, result |-> EmptyResult, i |-> 0, retErr |-> "none"]

NoInvocations == [k \in Invocations |-> NotCalled(<<>>)]

\* no method of the service is called directly
\* the context of a direct call and the fields AnalyzeIP has filled so far
NoLocals == [done |-> FALSE, geo |-> "nil", isp |-> "nil", dns |-> "nil"]

NoSvc == [op |-> "none", args |-> <<>>, pc |-> "idle", local |-> NoLocals, ret |-> <<>>]

\* a direct call of the method op with the arguments args, not yet returned
Called(op, args) ==
    [op |-> op, args |-> args, pc |-> "called", local |-> NoLocals, ret |-> <<>>]

NoCall == [ctx |-> "none", domain |-> "", recordType |-> ""]

NoReturn == Returns(NoDNSResult, "none", FALSE)

\* no DNS request is being served
DnsIdle ==
    /\ dnsRequest = [method |-> "none", malformed |-> FALSE, domain |-> "", type |-> ""]
    /\ zone = ZoneDown
    /\ dnsHpc = "idle"
    /\ dnsStatus = 0
    /\ dnsCall = NoCall
    /\ dnsPc = "idle"
    /\ lookups = {}
    /\ dnsChan = <<>>
    /\ allRecords = <<>>
    /\ dnsI = 0
    /\ dnsRet = NoReturn
    /\ resolved = {}

----------------------------------------------------------------------------
Init ==
    /\ request \in Requests
    /\ upstream \in RequestWorlds
    /\ hpc = "start"
    /\ status = 0
    /\ body = "none"
    /\ ctxDone = FALSE
    /\ pc = "idle"
    /\ tasks = EmptyBag
    /\ semaphore = 0
    /\ resultChan = <<>>
    /\ result = EmptyResult
    /\ i = 0
    /\ retErr = "none"
    /\ DnsIdle
    /\ inv = NoInvocations
    /\ svc = NoSvc

\* BatchAnalyzeIPs up to its return or its call of BulkAnalyzeIPs, and
\* BulkAnalyzeIPs up to the end of the loop that starts the goroutines
BatchAnalyzeIPs ==
    /\ hpc = "start"
    /\ IF Validate(request) # "ok"
       THEN /\ hpc' = "done"
            /\ status' = 400
            /\ body' = Validate(request)
            /\ UNCHANGED <<pc, tasks, result>>
       ELSE /\ hpc' = "calling"
            /\ pc' = "collect"
            /\ result' = [EmptyResult EXCEPT !.Summary.Total = Len(request.IPs)]
            /\ tasks' = SpawnAll(request.IPs)
            /\ UNCHANGED <<status, body>>
    /\ UNCHANGED <<request, ctxDone, upstream, semaphore, resultChan, i, retErr>>
    /\ UNCHANGED <<dnsVars, inv, svc>>

\* goroutine t takes a token: semaphore <- struct{}{}
Acquire(t) ==
    /\ t.pc = "waiting"
    /\ CanAcquire(semaphore)
    /\ semaphore' = semaphore + 1
    /\ tasks' = Move(tasks, t, "running")
    /\ UNCHANGED <<request, hpc, status, body, ctxDone, upstream, pc, resultChan,
                   result, i, retErr>>
    /\ UNCHANGED <<dnsVars, inv, svc>>

\* AnalyzeIP in goroutine t: the address parses, getGeolocation returns
GetGeolocation(t) ==
    /\ t.pc = "running"
    /\ ParseIP(t.targetIP) # NilIP
    /\ tasks' = Step(tasks, t, [t EXCEPT !.pc = "atISP",
                                         !.geo = getGeolocation(ctxDone, upstream)])
    /\ UNCHANGED <<request, hpc, status, body, ctxDone, upstream, pc, semaphore,
                   resultChan, result, i, retErr>>
    /\ UNCHANGED <<dnsVars, inv, svc>>

\* AnalyzeIP in goroutine t: getISPInfo returns
GetISPInfo(t) ==
    /\ t.pc = "atISP"
    /\ tasks' = Step(tasks, t, [t EXCEPT !.pc = "atDNS",
                                         !.isp = getISPInfo(ctxDone, upstream)])
    /\ UNCHANGED <<request, hpc, status, body, ctxDone, upstream, pc, semaphore,
                   resultChan, result, i, retErr>>
    /\ UNCHANGED <<dnsVars, inv, svc>>

\* AnalyzeIP in goroutine t: getDNSInfo returns
GetDNSInfo(t) ==
    /\ t.pc = "atDNS"
    /\ tasks' = Step(tasks, t, [t EXCEPT !.pc = "atSend",
                                         !.dns = getDNSInfo(ctxDone, upstream)])
    /\ UNCHANGED <<request, hpc, status, body, ctxDone, upstream, pc, semaphore,
                   resultChan, result, i, retErr>>
    /\ UNCHANGED <<dnsVars, inv, svc>>

\* AnalyzeIP has returned in goroutine t, after its enrichment calls or at
\* once for an address that does not parse; t sends its analysisResult
Resolve(t) ==
    /\ t.pc = "atSend" \/ (t.pc = "running" /\ ParseIP(t.targetIP) = NilIP)
    /\ CanSend(resultChan, Len(request.IPs))
    /\ resultChan' = Append(resultChan, TaskResult(t))
    /\ tasks' = Move(tasks, t, "sent")
    /\ UNCHANGED <<request, hpc, status, body, ctxDone, upstream, pc, semaphore,
                   result, i, retErr>>
    /\ UNCHANGED <<dnsVars, inv, svc>>

\* goroutine t ends: its deferred function gives the token back
Release(t) ==
    /\ t.pc = "sent"
    /\ semaphore > 0
    /\ semaphore' = ReleaseToken(semaphore, t)
    /\ tasks' = Move(tasks, t, "done")
    /\ UNCHANGED <<request, hpc, status, body, ctxDone, upstream, pc, resultChan,
                   result, i, retErr>>
    /\ UNCHANGED <<dnsVars, inv, svc>>

\* one round of the collection loop: res := <-resultChan
Collect ==
    /\ pc = "collect"
    /\ ~LoopDone(i, Len(request.IPs))
    /\ resultChan # <<>>
    /\ result' = Tally(result, Head(resultChan))
    /\ resultChan' = Tail(resultChan)
    /\ i' = i + 1
    /\ UNCHANGED <<request, hpc, status, body, ctxDone, upstream, pc, tasks,
                   semaphore, retErr>>
    /\ UNCHANGED <<dnsVars, inv, svc>>

\* the loop is over: return result, nil
BulkReturn ==
    /\ pc = "collect"
    /\ LoopDone(i, Len(request.IPs))
    /\ pc' = "returned"
    /\ retErr' = ReturnErr(result)
    /\ UNCHANGED <<request, hpc, status, body, ctxDone, upstream, tasks, semaphore,
                   resultChan, result, i>>
    /\ UNCHANGED <<dnsVars, inv, svc>>

\* the handler after BulkAnalyzeIPs returned: the error answer, or the
\* encoded result, or the error answer of an encoding that failed
Respond ==
    /\ hpc = "calling"
    /\ pc = "returned"
    /\ hpc' = "done"
    /\ IF ResponseStatus(retErr) = 500
       THEN status' = 500 /\ body' = "Bulk analysis failed"
       ELSE IF Encode(result) # "nil"
       THEN status' = 500 /\ body' = "Failed to encode response"
       ELSE status' = 200 /\ body' = "result"
    /\ UNCHANGED <<request, ctxDone, upstream, pc, tasks, semaphore, resultChan,
                   result, i, retErr>>
    /\ UNCHANGED <<dnsVars, inv, svc>>

\* the request context ends (client gone, deadline) while the handler runs
CancelCtx ==
    /\ hpc = "calling"
    /\ ~ctxDone
    /\ ctxDone' = TRUE
    /\ UNCHANGED <<request, hpc, status, body, upstream, pc, tasks, semaphore,
                   resultChan, result, i, retErr>>
    /\ UNCHANGED <<dnsVars, inv, svc>>

\* a step of BulkAnalyzeIPs or of one of its goroutines
Progress ==
    \/ \E t \in BagToSet(tasks) : Acquire(t)
    \/ \E t \in BagToSet(tasks) : GetGeolocation(t)
    \/ \E t \in BagToSet(tasks) : GetISPInfo(t)
    \/ \E t \in BagToSet(tasks) : GetDNSInfo(t)
    \/ \E t \in BagToSet(tasks) : Resolve(t)
    \/ \E t \in BagToSet(tasks) : Release(t)
    \/ Collect
    \/ BulkReturn

Next ==
    \/ BatchAnalyzeIPs
    \/ \E t \in BagToSet(tasks) : Acquire(t)
    \/ \E t \in BagToSet(tasks) : GetGeolocation(t)
    \/ \E t \in BagToSet(tasks) : GetISPInfo(t)
    \/ \E t \in BagToSet(tasks) : GetDNSInfo(t)
    \/ \E t \in BagToSet(tasks) : Resolve(t)
    \/ \E t \in BagToSet(tasks) : Release(t)
    \/ Collect
    \/ BulkReturn
    \/ Respond
    \/ CancelCtx

Spec == Init /\ [][Next]_vars

\* the short lists of the runs checked for termination: one target that
\* parses and one that does not, in every order up to MaxShort
LiveLists == UNION {[1..n -> {"1.1.1.1", "not-an-ip"}] : n \in 1..MaxShort}

\* the well-formed requests of the runs checked for termination: the short
\* lists, the documented example and the long list of SemaphoreCap + 1 targets
LiveRequests ==
    [malformed : {FALSE},
     IPs : LiveLists \cup {ExampleList}
           \cup {Uniform(SemaphoreCap + 1, "not-an-ip")}]

InitLive ==
    /\ request \in LiveRequests
    /\ upstream \in RequestWorlds
    /\ hpc = "start"
    /\ status = 0
    /\ body = "none"
    /\ ctxDone = FALSE
    /\ pc = "idle"
    /\ tasks = EmptyBag
    /\ semaphore = 0
    /\ resultChan = <<>>
    /\ result = EmptyResult
    /\ i = 0
    /\ retErr = "none"
    /\ DnsIdle
    /\ inv = NoInvocations
    /\ svc = NoSvc

\* the scheduler runs every goroutine that can take a step, and every
\* AnalyzeIP call returns: a step of BulkAnalyzeIPs or of its goroutines that
\* stays possible is eventually taken
SpecLive == InitLive /\ [][Next]_vars /\ WF_vars(Progress)

----------------------------------------------------------------------------
(* A batch request during which a call of AnalyzeIP may panic *)

\* the call s.httpClient.Do of getGeolocation panics in goroutine t (a
\* service without HTTP client, a transport that panics): the goroutine
\* unwinds and its deferred function gives the token back, which lets a
\* waiting goroutine in. The process still runs: the other goroutines and
\* the collector go on
PanicDefer(t) ==
    /\ t.pc = "running"
    /\ ParseIP(t.targetIP) # NilIP
    /\ semaphore' = ReleaseToken(semaphore, t)
    /\ tasks' = Move(tasks, t, "unwinding")
    /\ UNCHANGED <<request, hpc, status, body, ctxDone, upstream, pc, resultChan,
                   result, i, retErr>>
    /\ UNCHANGED <<dnsVars, inv, svc>>

\* the deferred function of t has run and nothing has recovered the panic in
\* the goroutine: the runtime ends the process. No goroutine goes on, nothing
\* more is sent, collected, returned or answered; what is left of the batch
\* is the goroutine that panicked
PanicExit(t) ==
    /\ t.pc = "unwinding"
    /\ tasks' = SetToBag({Task(t.targetIP, "panicked")})
    /\ pc' = "crashed"
    /\ hpc' = "crashed"
    /\ UNCHANGED <<request, status, body, ctxDone, upstream, semaphore, resultChan,
                   result, i, retErr>>
    /\ UNCHANGED <<dnsVars, inv, svc>>

\* a long list with one target that parses: its goroutine can hold a token
\* and panic while another goroutine waits for one
PanicList == Uniform(SemaphoreCap, "not-an-ip") \o <<"1.1.1.1">>

PanicRequests == Requests \cup {[malformed |-> FALSE, IPs |-> PanicList]}

InitPanic ==
    /\ request \in PanicRequests
    /\ upstream \in RequestWorlds
    /\ hpc = "start"
    /\ status = 0
    /\ body = "none"
    /\ ctxDone = FALSE
    /\ pc = "idle"
    /\ tasks = EmptyBag
    /\ semaphore = 0
    /\ resultChan = <<>>
    /\ result = EmptyResult
    /\ i = 0
    /\ retErr = "none"
    /\ DnsIdle
    /\ inv = NoInvocations
    /\ svc = NoSvc

NextPanic ==
    \/ Next
    \/ \E t \in BagToSet(tasks) : PanicDefer(t)
    \/ \E t \in BagToSet(tasks) : PanicExit(t)

SpecPanic == InitPanic /\ [][NextPanic]_vars

----------------------------------------------------------------------------
(* The handler's boundary validation on requests of every length up to     *)
(* MaxIPs + 1                                                              *)

BoundaryRequests ==
    {[malformed |-> TRUE, IPs |-> <<>>]}
    \cup {[malformed |-> FALSE, IPs |-> Uniform(n, t)] : n \in 0..(MaxIPs + 1), t \in Targets}

InitBoundary ==
    /\ request \in BoundaryRequests
    /\ upstream \in RequestWorlds
    /\ hpc = "start"
    /\ status = 0
    /\ body = "none"
    /\ ctxDone = FALSE
    /\ pc = "idle"
    /\ tasks = EmptyBag
    /\ semaphore = 0
    /\ resultChan = <<>>
    /\ result = EmptyResult
    /\ i = 0
    /\ retErr = "none"
    /\ DnsIdle
    /\ inv = NoInvocations
    /\ svc = NoSvc

NextBoundary == BatchAnalyzeIPs

SpecBoundary == InitBoundary /\ [][NextBoundary]_vars

----------------------------------------------------------------------------
(* The DNS lookup endpoint: GET or POST /api/dns/lookup *)

Domains == {"", "example.com"}

TypeInputs == {"", "a", "AAAA", "mx", "NS", "TXT", "CNAME", "PTR", "ALL", "all", "srv"}

DnsRequests ==
    {[method |-> "POST", malformed |-> TRUE, domain |-> "", type |-> ""]}
    \cup [method : {"GET", "POST"}, malformed : {FALSE}, domain : Domains,
          type : TypeInputs]

InitDNS ==
    /\ dnsRequest \in DnsRequests
    /\ zone \in Zones
    /\ dnsHpc = "start"
    /\ dnsStatus = 0
    /\ dnsCall = NoCall
    /\ dnsPc = "idle"
    /\ lookups = {}
    /\ dnsChan = <<>>
    /\ allRecords = <<>>
    /\ dnsI = 0
    /\ dnsRet = NoReturn
    /\ resolved = {}
    /\ inv = NoInvocations
    /\ svc = NoSvc
    /\ request = [malformed |-> FALSE, IPs |-> <<>>]
    /\ upstream = AllDown
    /\ hpc = "idle"
    /\ status = 0
    /\ body = "none"
    /\ ctxDone = FALSE
    /\ pc = "idle"
    /\ tasks = EmptyBag
    /\ semaphore = 0
    /\ resultChan = <<>>
    /\ result = EmptyResult
    /\ i = 0
    /\ retErr = "none"

\* the handler LookupDNS up to its 400 answer or its call of the service
\* method LookupDNS
HandlerLookupDNS ==
    /\ dnsHpc = "start"
    /\ IF DnsValidate(dnsRequest) # "ok"
       THEN /\ dnsHpc' = "done"
            /\ dnsStatus' = 400
            /\ UNCHANGED <<dnsCall, dnsPc>>
       ELSE /\ dnsHpc' = "calling"
            /\ dnsCall' = [ctx        |-> "request",
                           domain     |-> dnsRequest.domain,
                           recordType |-> ToUpper(DefaultType(dnsRequest.type))]
            /\ dnsPc' = "called"
            /\ UNCHANGED dnsStatus
    /\ UNCHANGED <<dnsRequest, zone, lookups, dnsChan, allRecords, dnsI, dnsRet,
                   resolved>>
    /\ UNCHANGED <<bulkVars, inv, svc>>

\* the service method LookupDNS, called by the handler: for ALL up to the end
\* of the loop of lookupAll that starts the goroutines; otherwise up to its
\* return, at once when it rejects its arguments and else when the resolver
\* has answered the lookup of the one type
LookupDNS ==
    /\ dnsPc = "called"
    /\ IF dnsCall.domain # "" /\ ToUpper(dnsCall.recordType) = "ALL"
       THEN /\ dnsPc' = "collect"
            /\ lookups' = {Lookup(AllTypes[k], LookupAllCtx, "running") :
                               k \in 1..Len(AllTypes)}
            /\ UNCHANGED <<dnsRet, resolved>>
       ELSE LET r == LookupDNSOne(zone, dnsCall.domain, dnsCall.recordType) IN
            /\ dnsPc' = "returned"
            /\ dnsRet' = r
            /\ resolved' = IF r.asked THEN {ToUpper(dnsCall.recordType)} ELSE {}
            /\ UNCHANGED lookups
    /\ UNCHANGED <<dnsRequest, zone, dnsHpc, dnsStatus, dnsCall, dnsChan, allRecords,
                   dnsI>>
    /\ UNCHANGED <<bulkVars, inv, svc>>

\* the goroutine g of lookupAll: its LookupDNS returns and it sends
LookupOne(g) ==
    /\ g.pc = "running"
    /\ CanSend(dnsChan, Len(AllTypes))
    /\ dnsChan' = Append(dnsChan, LookupSends(zone, dnsCall.domain, g.rType))
    /\ lookups' = (lookups \ {g}) \cup {Lookup(g.rType, g.ctx, "done")}
    /\ resolved' = resolved \cup {g.rType}
    /\ UNCHANGED <<dnsRequest, zone, dnsHpc, dnsStatus, dnsCall, dnsPc, allRecords,
                   dnsI, dnsRet>>
    /\ UNCHANGED <<bulkVars, inv, svc>>

\* one round of the collection loop of lookupAll: records := <-resultChan
DnsCollect ==
    /\ dnsPc = "collect"
    /\ ~LoopDone(dnsI, Len(AllTypes))
    /\ dnsChan # <<>>
    /\ allRecords' = Gather(allRecords, Head(dnsChan))
    /\ dnsChan' = Tail(dnsChan)
    /\ dnsI' = dnsI + 1
    /\ UNCHANGED <<dnsRequest, zone, dnsHpc, dnsStatus, dnsCall, dnsPc, lookups,
                   dnsRet, resolved>>
    /\ UNCHANGED <<bulkVars, inv, svc>>

\* the loop is over: lookupAll returns, and LookupDNS with it
DnsReturn ==
    /\ dnsPc = "collect"
    /\ LoopDone(dnsI, Len(AllTypes))
    /\ dnsPc' = "returned"
    /\ dnsRet' = lookupAllReturns(dnsCall.domain, allRecords)
    /\ UNCHANGED <<dnsRequest, zone, dnsHpc, dnsStatus, dnsCall, lookups, dnsChan,
                   allRecords, dnsI, resolved>>
    /\ UNCHANGED <<bulkVars, inv, svc>>

\* the handler after the service method LookupDNS returned
DnsRespond ==
    /\ dnsHpc = "calling"
    /\ dnsPc = "returned"
    /\ dnsHpc' = "done"
    /\ dnsStatus' = ResponseStatus(dnsRet.err)
    /\ UNCHANGED <<dnsRequest, zone, dnsCall, dnsPc, lookups, dnsChan, allRecords,
                   dnsI, dnsRet, resolved>>
    /\ UNCHANGED <<bulkVars, inv, svc>>

NextDNS ==
    \/ HandlerLookupDNS
    \/ LookupDNS
    \/ \E g \in lookups : LookupOne(g)
    \/ DnsCollect
    \/ DnsReturn
    \/ DnsRespond

SpecDNS == InitDNS /\ [][NextDNS]_vars

----------------------------------------------------------------------------
(* Two concurrent invocations of BulkAnalyzeIPs on one service *)

TwoLists == {<<"1.1.1.1", "not-an-ip">>, <<"8.8.8.8">>}

InitTwo ==
    /\ inv \in {[k \in Invocations |-> NotCalled(f[k])] : f \in [Invocations -> TwoLists]}
    /\ upstream \in RequestWorlds
    /\ request = [malformed |-> FALSE, IPs |-> <<>>]
    /\ hpc = "idle"
    /\ status = 0
    /\ body = "none"
    /\ ctxDone = FALSE
    /\ pc = "idle"
    /\ tasks = EmptyBag
    /\ semaphore = 0
    /\ resultChan = <<>>
    /\ result = EmptyResult
    /\ i = 0
    /\ retErr = "none"
    /\ DnsIdle
    /\ svc = NoSvc

\* invocation k is called: BulkAnalyzeIPs up to the end of the loop that
\* starts the goroutines
Call(k) ==
    /\ inv[k].pc = "idle"
    /\ inv' = [inv EXCEPT ![k].pc = "collect",
                          ![k].result = [EmptyResult EXCEPT
                                            !.Summary.Total = Len(inv[k].IPs)],
                          ![k].tasks = SpawnAll(inv[k].IPs)]
    /\ UNCHANGED <<bulkVars, dnsVars, svc>>

\* goroutine t of invocation k takes a token
AcquireIn(k, t) ==
    /\ t.pc = "waiting"
    /\ CanAcquire(inv[SemOf(k)].semaphore)
    /\ inv' = [[inv EXCEPT ![SemOf(k)].semaphore = @ + 1]
                    EXCEPT ![k].tasks = Move(@, t, "running")]
    /\ UNCHANGED <<bulkVars, dnsVars, svc>>

\* AnalyzeIP in goroutine t of invocation k: getGeolocation returns
GetGeolocationIn(k, t) ==
    /\ t.pc = "running"
    /\ ParseIP(t.targetIP) # NilIP
    /\ inv' = [inv EXCEPT ![k].tasks =
                   Step(@, t, [t EXCEPT !.pc = "atISP",
                                        !.geo = getGeolocation(ctxDone, upstream)])]
    /\ UNCHANGED <<bulkVars, dnsVars, svc>>

\* AnalyzeIP in goroutine t of invocation k: getISPInfo returns
GetISPInfoIn(k, t) ==
    /\ t.pc = "atISP"
    /\ inv' = [inv EXCEPT ![k].tasks =
                   Step(@, t, [t EXCEPT !.pc = "atDNS",
                                        !.isp = getISPInfo(ctxDone, upstream)])]
    /\ UNCHANGED <<bulkVars, dnsVars, svc>>

\* AnalyzeIP in goroutine t of invocation k: getDNSInfo returns
GetDNSInfoIn(k, t) ==
    /\ t.pc = "atDNS"
    /\ inv' = [inv EXCEPT ![k].tasks =
                   Step(@, t, [t EXCEPT !.pc = "atSend",
                                        !.dns = getDNSInfo(ctxDone, upstream)])]
    /\ UNCHANGED <<bulkVars, dnsVars, svc>>

\* AnalyzeIP has returned in goroutine t of invocation k, which sends
ResolveIn(k, t) ==
    /\ t.pc = "atSend" \/ (t.pc = "running" /\ ParseIP(t.targetIP) = NilIP)
    /\ CanSend(inv[ChanOf(k)].resultChan, Len(inv[ChanOf(k)].IPs))
    /\ inv' = [[inv EXCEPT ![ChanOf(k)].resultChan = Append(@, TaskResult(t))]
                    EXCEPT ![k].tasks = Move(@, t, "sent")]
    /\ UNCHANGED <<bulkVars, dnsVars, svc>>

\* goroutine t of invocation k ends and gives its token back
ReleaseIn(k, t) ==
    /\ t.pc = "sent"
    /\ inv[SemOf(k)].semaphore > 0
    /\ inv' = [[inv EXCEPT ![SemOf(k)].semaphore = ReleaseToken(@, t)]
                    EXCEPT ![k].tasks = Move(@, t, "done")]
    /\ UNCHANGED <<bulkVars, dnsVars, svc>>

\* one round of the collection loop of invocation k
CollectIn(k) ==
    /\ inv[k].pc = "collect"
    /\ ~LoopDone(inv[k].i, Len(inv[k].IPs))
    /\ inv[k].resultChan # <<>>
    /\ inv' = [inv EXCEPT ![k].result = Tally(@, Head(inv[k].resultChan)),
                          ![k].resultChan = Tail(@),
                          ![k].i = @ + 1]
    /\ UNCHANGED <<bulkVars, dnsVars, svc>>

\* invocation k returns result, nil
ReturnIn(k) ==
    /\ inv[k].pc = "collect"
    /\ LoopDone(inv[k].i, Len(inv[k].IPs))
    /\ inv' = [inv EXCEPT ![k].pc = "returned",
                          ![k].retErr = ReturnErr(inv[k].result)]
    /\ UNCHANGED <<bulkVars, dnsVars, svc>>

NextTwo ==
    \/ \E k \in Invocations : Call(k)
    \/ \E k \in Invocations : \E t \in BagToSet(inv[k].tasks) : AcquireIn(k, t)
    \/ \E k \in Invocations : \E t \in BagToSet(inv[k].tasks) : GetGeolocationIn(k, t)
    \/ \E k \in Invocations : \E t \in BagToSet(inv[k].tasks) : GetISPInfoIn(k, t)
    \/ \E k \in Invocations : \E t \in BagToSet(inv[k].tasks) : GetDNSInfoIn(k, t)
    \/ \E k \in Invocations : \E t \in BagToSet(inv[k].tasks) : ResolveIn(k, t)
    \/ \E k \in Invocations : \E t \in BagToSet(inv[k].tasks) : ReleaseIn(k, t)
    \/ \E k \in Invocations : CollectIn(k)
    \/ \E k \in Invocations : ReturnIn(k)

SpecTwo == InitTwo /\ [][NextTwo]_vars

----------------------------------------------------------------------------
(* Direct calls of the methods of the service *)

\* the texts given to AnalyzeIP
IPInputs ==
    {"1.1.1.1", "8.8.8.8", "10.0.0.1", "127.0.0.1", "::1", "224.0.0.1", "fe80::1",
     "not-an-ip", "", "1.1.1.1 "}

\* the calls of AnalyzeIP: the context has ended before the call (done) or
\* has not
AnalyzeIPCalls ==
    {[Called("AnalyzeIP", [done |-> d, up |-> w, ipStr |-> t]) EXCEPT !.local.done = d] :
         d \in BOOLEAN, w \in Worlds, t \in IPInputs}

\* the calls of LookupDNS whose record type is not ALL, and those of ALL that
\* end before the switch
LookupDNSCalls ==
    {Called("LookupDNS", [zone |-> z, domain |-> d, recordType |-> t]) :
         z \in Zones, d \in Domains, t \in TypeInputs \ {"ALL", "all"}}
    \cup {Called("LookupDNS", [zone |-> z, domain |-> "", recordType |-> t]) :
             z \in Zones, t \in {"ALL", "all"}}

HeaderNames ==
    {"CF-Connecting-IP", "True-Client-IP", "X-Real-IP", "X-Forwarded-For",
     "X-Client-IP", "X-Forwarded", "X-Cluster-Client-IP", "Forwarded-For", "Forwarded"}

\* the values a header is given
HeaderValues ==
    {"1.1.1.1", "::1", "8.8.8.8, 10.0.0.1", " 10.0.0.1 ,8.8.8.8", "unknown, 1.1.1.1",
     " 1.1.1.1", ",1.1.1.1"}

RemoteAddrs ==
    {"192.0.2.7:4711", "[::1]:4711", "192.0.2.7", "[::1]x:80", "a[b:1", "a]b:1"}

\* the header of a request that sets h1 to v1 and h2 to v2 and nothing else
HeaderWith(h1, v1, h2, v2) ==
    [h \in HeaderNames |-> IF h = h1 THEN v1 ELSE IF h = h2 THEN v2 ELSE ""]

\* the requests given to GetClientIP: at most two headers are set
ClientRequests ==
    {[Header |-> HeaderWith(h1, v1, h2, v2), RemoteAddr |-> a] :
         h1 \in HeaderNames, h2 \in HeaderNames,
         v1 \in HeaderValues \cup {""}, v2 \in HeaderValues \cup {""},
         a \in RemoteAddrs}

GetClientIPCalls == {Called("GetClientIP", [r |-> r]) : r \in ClientRequests}

SvcCalls == AnalyzeIPCalls \cup LookupDNSCalls \cup GetClientIPCalls

InitSvc ==
    /\ svc \in SvcCalls
    /\ inv = NoInvocations
    /\ DnsIdle
    /\ request = [malformed |-> FALSE, IPs |-> <<>>]
    /\ upstream = AllDown
    /\ hpc = "idle"
    /\ status = 0
    /\ body = "none"
    /\ ctxDone = FALSE
    /\ pc = "idle"
    /\ tasks = EmptyBag
    /\ semaphore = 0
    /\ resultChan = <<>>
    /\ result = EmptyResult
    /\ i = 0
    /\ retErr = "none"

\* AnalyzeIP(ctx, ipStr) called directly: the text parses, getGeolocation
\* returns
CallGetGeolocation ==
    /\ svc.op = "AnalyzeIP" /\ svc.pc = "called"
    /\ ParseIP(svc.args.ipStr) # NilIP
    /\ svc' = [svc EXCEPT !.pc = "atISP",
                          !.local.geo = getGeolocation(svc.local.done, svc.args.up)]
    /\ UNCHANGED <<bulkVars, dnsVars, inv>>

\* AnalyzeIP called directly: getISPInfo returns
CallGetISPInfo ==
    /\ svc.op = "AnalyzeIP" /\ svc.pc = "atISP"
    /\ svc' = [svc EXCEPT !.pc = "atDNS",
                          !.local.isp = getISPInfo(svc.local.done, svc.args.up)]
    /\ UNCHANGED <<bulkVars, dnsVars, inv>>

\* AnalyzeIP called directly: getDNSInfo returns
CallGetDNSInfo ==
    /\ svc.op = "AnalyzeIP" /\ svc.pc = "atDNS"
    /\ svc' = [svc EXCEPT !.pc = "atReturn",
                          !.local.dns = getDNSInfo(svc.local.done, svc.args.up)]
    /\ UNCHANGED <<bulkVars, dnsVars, inv>>

\* AnalyzeIP called directly returns: at once for a text that does not parse,
\* after its three enrichment calls otherwise
CallAnalyzeIP ==
    /\ svc.op = "AnalyzeIP"
    /\ svc.pc = "atReturn" \/ (svc.pc = "called" /\ ParseIP(svc.args.ipStr) = NilIP)
    /\ svc' = [svc EXCEPT !.pc = "returned",
                          !.ret = AnalyzeIPWith(svc.args.ipStr, svc.local.geo,
                                                svc.local.isp, svc.local.dns)]
    /\ UNCHANGED <<bulkVars, dnsVars, inv>>

\* the context given to AnalyzeIP ends while the call runs
CancelCall ==
    /\ svc.op = "AnalyzeIP" /\ svc.pc \in {"called", "atISP", "atDNS", "atReturn"}
    /\ ~svc.local.done
    /\ svc' = [svc EXCEPT !.local.done = TRUE]
    /\ UNCHANGED <<bulkVars, dnsVars, inv>>

\* LookupDNS(ctx, domain, recordType) runs and returns
CallLookupDNS ==
    /\ svc.op = "LookupDNS" /\ svc.pc = "called"
    /\ svc' = [svc EXCEPT !.pc = "returned",
                          !.ret = LookupDNSOne(svc.args.zone, svc.args.domain,
                                               svc.args.recordType)]
    /\ UNCHANGED <<bulkVars, dnsVars, inv>>

\* GetClientIP(r) runs and returns
CallGetClientIP ==
    /\ svc.op = "GetClientIP" /\ svc.pc = "called"
    /\ svc' = [svc EXCEPT !.pc = "returned", !.ret = GetClientIP(svc.args.r)]
    /\ UNCHANGED <<bulkVars, dnsVars, inv>>

NextSvc ==
    \/ CallGetGeolocation
    \/ CallGetISPInfo
    \/ CallGetDNSInfo
    \/ CallAnalyzeIP
    \/ CancelCall
    \/ CallLookupDNS
    \/ CallGetClientIP

SpecSvc == InitSvc /\ [][NextSvc]_vars

----------------------------------------------------------------------------
(* Vocabulary of the properties *)

N == Len(request.IPs)

Returned == pc = "returned"

Waiting == CountAt(tasks, "waiting")

\* number of goroutines that hold a token and have not sent: their AnalyzeIP
\* call is in flight
Running ==
    BagCardinality([t \in {x \in BagToSet(tasks) : x.pc \in InFlight} |-> tasks[t]])

Sent == CountAt(tasks, "sent")

Finished == CountAt(tasks, "done")

Fails(t) == ParseIP(t) = NilIP

\* number of positions of the sequence s whose element satisfies P
CountIn(s, P(_)) == Cardinality({k \in 1..Len(s) : P(s[k])})

\* number of entries of the result for target t, failure markers or not
FailureEntries(t) == CountIn(result.Results, LAMBDA e : e = ErrorInfo(t))

SuccessEntries(t) ==
    CountIn(result.Results, LAMBDA e : e.IP = t /\ e.Type # "error" /\ e.Version # "Unknown")

Submitted(t) == CountIn(request.IPs, LAMBDA x : x = t)

RECURSIVE BagOfSeq(_)
BagOfSeq(s) ==
    IF s = <<>> THEN EmptyBag ELSE SetToBag({Head(s)}) (+) BagOfSeq(Tail(s))

IPsOf(infos) == [k \in 1..Len(infos) |-> infos[k].IP]

\* the service method LookupDNS was called for ALL and has returned
AllReturned == dnsCall.recordType = "ALL" /\ dnsPc = "returned"

\* the records the lookup of one type yields, none when it fails
RecordsOfType(rType) ==
    LET r == lookupType(zone, dnsCall.domain, rType) IN
    IF r.err = "nil" THEN r.records ELSE <<>>

TypeFails(rType) == lookupType(zone, dnsCall.domain, rType).err # "nil"

\* number of goroutines of tasks started for target t that are at position p
TasksFor(bag, t, p) ==
    BagCardinality([x \in {y \in BagToSet(bag) : y.targetIP = t /\ y.pc = p} |-> bag[x]])

\* the goroutines started for target t whose AnalyzeIP call is in flight
Calling(t) ==
    TasksFor(tasks, t, "running") + TasksFor(tasks, t, "atISP")
    + TasksFor(tasks, t, "atDNS") + TasksFor(tasks, t, "atSend")

\* the AnalyzeIP calls that have returned for target t: the goroutines past
\* the call
Attempts(t) == TasksFor(tasks, t, "sent") + TasksFor(tasks, t, "done")

\* the outcomes produced so far for target t, received or not
Outcomes(t) ==
    CountIn(resultChan, LAMBDA r : r.info.IP = t)
    + CountIn(result.Results, LAMBDA e : e.IP = t)

\* number of goroutines of the bag that hold a token: from the acquisition
\* to the end of the goroutine
Holding(bag) ==
    BagCardinality([t \in {x \in BagToSet(bag) : x.pc \in InFlight \cup {"sent"}}
                       |-> bag[t]])

\* the targets of the outcomes invocation k holds, received or not
HeldBy(k) ==
    BagOfSeq([j \in 1..Len(inv[k].resultChan) |-> inv[k].resultChan[j].info.IP])
    (+) BagOfSeq(IPsOf(inv[k].result.Results))

\* the targets of the goroutines of invocation k that have sent
SentBy(k) ==
    LET past == {t \in BagToSet(inv[k].tasks) : t.pc \in {"sent", "done"}} IN
    [x \in {t.targetIP : t \in past} |->
        TasksFor(inv[k].tasks, x, "sent") + TasksFor(inv[k].tasks, x, "done")]

\* the texts that are IP addresses, among those the model submits
IPTexts == {"1.1.1.1", "8.8.8.8", "10.0.0.1", "127.0.0.1", "::1", "224.0.0.1", "fe80::1"}

\* the direct call of the method op has returned
SvcReturned(op) == svc.op = op /\ svc.pc = "returned"

\* the spellings of the supported record types, among those the model submits
SupportedSpellings ==
    {"A", "a", "AAAA", "MX", "mx", "NS", "TXT", "CNAME", "PTR", "ALL", "all"}

\* the record type a spelling stands for
TypeOfSpelling(t) == IF t = "a" THEN "A" ELSE IF t = "mx" THEN "MX" ELSE t

\* the answer of the resolver a lookup of the type rType rests on
AnswerFor(z, rType) ==
    CASE rType \in {"A", "AAAA"} -> z.ip
      [] rType = "MX"    -> z.mx
      [] rType = "NS"    -> z.ns
      [] rType = "TXT"   -> z.txt
      [] rType = "CNAME" -> z.cname
      [] rType = "PTR"   -> z.addr

\* the headers in the order of priority
Priority ==
    <<"CF-Connecting-IP", "True-Client-IP", "X-Real-IP", "X-Forwarded-For",
      "X-Client-IP", "X-Forwarded", "X-Cluster-Client-IP", "Forwarded-For", "Forwarded">>

\* the first comma-separated element of a submitted value that has several,
\* the value itself otherwise
FirstElement(v) ==
    CASE v = "8.8.8.8, 10.0.0.1"  -> "8.8.8.8"
      [] v = " 10.0.0.1 ,8.8.8.8" -> "10.0.0.1"
      [] v = "unknown, 1.1.1.1"   -> "unknown"
      [] v = ",1.1.1.1"           -> ""
      [] OTHER                    -> v

\* the host part of a submitted remote address
HostPart(a) ==
    CASE a = "192.0.2.7:4711" -> "192.0.2.7"
      [] a = "[::1]:4711"     -> "::1"
      [] OTHER                -> a

\* the positions in Priority of the headers of r whose value qualifies
Qualifying(r) ==
    {k \in 1..Len(Priority) : FirstElement(r.Header[Priority[k]]) \in IPTexts}

IsPrefix(s, t) == Len(s) <= Len(t) /\ \A k \in 1..Len(s) : s[k] = t[k]

\* a goroutine sends its analysisResult in this step
Sending == Len(resultChan') = Len(resultChan) + 1

JustSent == resultChan'[Len(resultChan')]

\* the goroutines that have gone on inside AnalyzeIP in this step, as they
\* are after it
Stepped == {u \in BagToSet(tasks') : CopiesIn(u, tasks') > CopiesIn(u, tasks)}

----------------------------------------------------------------------------
(* C1: when BulkAnalyzeIPs returns, Results has exactly N entries and      *)
(* Summary.Successful + Summary.Failed = Summary.Total = N, for every      *)
(* input list and every interleaving of the goroutines.                    *)
C1_ExactlyNOutcomes ==
    Returned =>
        /\ Len(result.Results) = N
        /\ result.Summary.Successful + result.Summary.Failed = result.Summary.Total
        /\ result.Summary.Total = N

C1_Witness == Returned /\ N > SemaphoreCap /\ result.Summary.Failed = N

(* C2: at most SemaphoreCap = 10 AnalyzeIP calls are in flight at any      *)
(* moment of one invocation, also when N > 10.                             *)
C2_AtMostTenInFlight == Running <= SemaphoreCap

C2_Witness == Running = SemaphoreCap /\ Waiting > 0

(* C3: a goroutine holds one token from before its AnalyzeIP call until it *)
(* ends, whether the resolution succeeded or failed: the tokens held are   *)
(* exactly those of the goroutines between acquire and release, and once   *)
(* every goroutine has ended no token is held.                             *)
C3_NoPermitLeaked ==
    /\ semaphore = Running + Sent
    /\ (pc # "idle" /\ Finished = N) => semaphore = 0

C3_Witness ==
    /\ pc # "idle" /\ Finished = N /\ semaphore = 0
    /\ BagIn(Task("not-an-ip", "done"), tasks)
    /\ BagIn(Task("8.8.8.8", "done"), tasks)

(* C4: BulkAnalyzeIPs does not return before every one of the N goroutines *)
(* has reported: each goroutine reports exactly once, and at the return    *)
(* every report has been received.                                         *)
C4_ReturnsAfterAllReported ==
    /\ Len(resultChan) + Len(result.Results) = Sent + Finished
    /\ Returned =>
          /\ Waiting + Running = 0
          /\ resultChan = <<>>
          /\ Len(result.Results) = BagCardinality(tasks)
          /\ BagCardinality(tasks) = N

C4_Witness == Returned /\ N > SemaphoreCap /\ Sent > 0

(* C5 as stated: a target whose AnalyzeIP call panics is not dropped: the   *)
(* failure of its goroutine is recorded as a failed item result for that   *)
(* target, and the batch goes on to its completion.                        *)
C5_PanicRecordedAsFailure ==
    \A t \in BagToSet(tasks) :
        t.pc = "panicked" =>
            /\ hpc # "crashed" /\ pc # "crashed"
            /\ \/ \E k \in 1..Len(resultChan) :
                     resultChan[k].info = ErrorInfo(t.targetIP)
               \/ \E k \in 1..Len(result.Results) :
                     result.Results[k] = ErrorInfo(t.targetIP)

(* C6: a resolver failure for one target becomes a failure marker carrying *)
(* the target string, counted in Summary.Failed; it does not abort, block  *)
(* or change the outcome of the sibling targets, each of which gets the    *)
(* success entry AnalyzeIP yields for it alone.                             *)
C6_FailureIsPerItem ==
    Returned =>
        /\ \A k \in 1..N :
              Fails(request.IPs[k]) =>
                  \E j \in 1..Len(result.Results) :
                      /\ result.Results[j].IP = request.IPs[k]
                      /\ result.Results[j].Type = "error"
        /\ result.Summary.Failed = CountIn(request.IPs, Fails)
        /\ \A k \in 1..N :
              ~Fails(request.IPs[k]) =>
                  \E j \in 1..Len(result.Results),
                     geo \in {"nil", GeoInfo(upstream)}, isp \in {"nil", "isp"},
                     dns \in {"nil", "dns"} :
                      result.Results[j] =
                          AnalyzeIPWith(request.IPs[k], geo, isp, dns).info

C6_Witness ==
    /\ Returned /\ N = 3
    /\ result.Summary.Failed = 1 /\ result.Summary.Successful = 2

(* C7: BulkAnalyzeIPs never returns an error because items failed: it      *)
(* returns a nil error, and when every resolution fails the summary is     *)
(* Successful = 0, Failed = N, Total = N.                                  *)
C7_AllFailedReturnsNormally ==
    Returned =>
        /\ retErr = "nil"
        /\ (\A k \in 1..N : Fails(request.IPs[k])) =>
              /\ result.Summary.Successful = 0
              /\ result.Summary.Failed = N
              /\ result.Summary.Total = N

C7_Witness ==
    /\ Returned /\ N > SemaphoreCap /\ retErr = "nil"
    /\ \A k \in 1..N : Fails(request.IPs[k])

(* C8: when every resolution succeeds, Summary.Failed = 0 and every entry  *)
(* is a success payload whose IP is the target it was resolved for.        *)
C8_AllSucceed ==
    (Returned /\ \A k \in 1..N : ~Fails(request.IPs[k])) =>
        /\ result.Summary.Failed = 0
        /\ result.Summary.Successful = N
        /\ \A j \in 1..Len(result.Results) :
              LET e == result.Results[j] IN
              /\ e.Type # "error" /\ e.Version \in {"IPv4", "IPv6"}
              /\ e.Security # "nil"
              /\ \E k \in 1..N : e.IP = request.IPs[k]
        /\ \A t \in Targets : SuccessEntries(t) = Submitted(t)

C8_Witness ==
    /\ Returned /\ request.IPs = <<"1.1.1.1", "1.1.1.1">>
    /\ result.Summary.Failed = 0 /\ ctxDone

(* C9: the multiset of IP fields of the results is the multiset of the     *)
(* submitted targets, duplicates included; Summary.Failed is the number of *)
(* submitted targets whose resolution fails; every failure entry is keyed  *)
(* to a failing target.                                                    *)
C9_ResultsMatchTargets ==
    Returned =>
        /\ BagOfSeq(IPsOf(result.Results)) = BagOfSeq(request.IPs)
        /\ result.Summary.Failed = CountIn(request.IPs, Fails)
        /\ result.Summary.Successful = N - CountIn(request.IPs, Fails)
        /\ \A j \in 1..Len(result.Results) :
              (result.Results[j].Type = "error") = Fails(result.Results[j].IP)

C9_Witness ==
    /\ Returned /\ request.IPs = ExampleList
    /\ result.Summary.Total = 3 /\ result.Summary.Successful = 2
    /\ result.Summary.Failed = 1
    /\ \E j \in 1..3 : result.Results[j] = ErrorInfo("not-an-ip")

(* C10: the handler answers 400 to a malformed body, to an empty list and  *)
(* to a list of more than MaxIPs = 100 targets, without starting           *)
(* BulkAnalyzeIPs or any goroutine, then or later; every list of 1 to 100  *)
(* targets is dispatched, one goroutine per target.                        *)
C10_BoundaryValidation ==
    hpc # "start" =>
        IF request.malformed \/ N = 0 \/ N > MaxIPs
        THEN /\ hpc = "done" /\ status = 400
             /\ pc = "idle" /\ tasks = EmptyBag
             /\ ~ENABLED Next
        ELSE /\ hpc = "calling" /\ status = 0
             /\ pc = "collect" /\ BagCardinality(tasks) = N
             /\ result.Summary.Total = N

C10_Witness == N = MaxIPs + 1 /\ status = 400 /\ pc = "idle"

(* C11: a batch request that passes validation is answered 200 with the    *)
(* result, which lists an outcome for every submitted target, also when    *)
(* every target failed; the handler never answers 500.                     *)
C11_ValidBatchAnswered200 ==
    /\ status # 500 /\ body # "Bulk analysis failed"
    /\ (hpc = "done" /\ Validate(request) = "ok") =>
          /\ status = 200 /\ body = "result"
          /\ Len(result.Results) = N
          /\ \A k \in 1..N : \E j \in 1..Len(result.Results) :
                result.Results[j].IP = request.IPs[k]

(* C12: the end of the context does not end the collection: after it,      *)
(* BulkAnalyzeIPs returns only once all N goroutines have reported and all *)
(* N outcomes are collected, and every outcome collected before stays in   *)
(* the result, in its place.                                               *)
C12_CancelDoesNotAbort ==
    [][ctxDone' =>
          /\ (pc = "collect" /\ pc' = "returned") =>
                /\ Len(result.Results) = N
                /\ Waiting + Running = 0
                /\ resultChan = <<>>
          /\ IsPrefix(result.Results, result'.Results)
          /\ result'.Summary.Successful >= result.Summary.Successful
          /\ result'.Summary.Failed >= result.Summary.Failed]_vars

C12_Witness ==
    /\ Returned /\ ctxDone /\ upstream = AllUp /\ N = 3
    /\ result.Results[1].Geolocation = "geo"
    /\ result.Results[3].Type # "error" /\ result.Results[3].Geolocation = "nil"

(* C13 as stated: once the context has ended, every item still in flight   *)
(* fails: the outcome its goroutine sends is a failure.                    *)
C13_InFlightFailsOnCancel ==
    [][(ctxDone /\ Sending) => JustSent.err # "nil"]_vars

(* C13 amended: an item in flight when the context ends is a failure only *)
(* when its target does not parse as an IP address. Otherwise it is a      *)
(* success entry: the getGeolocation and getISPInfo calls that return      *)
(* after the end of the context leave Geolocation and ISP absent, what was *)
(* returned before is kept, and DNS is what the resolver answers.          *)
(* Summary.Failed at the return is the number of targets that do not       *)
(* parse.                                                                  *)
C13_InFlightDegradesOnCancel ==
    [][/\ ctxDone =>
             \A u \in Stepped :
                /\ u.pc = "atISP" => u.geo = "nil"
                /\ u.pc = "atDNS" => u.isp = "nil"
                /\ u.pc = "atSend" => u.dns = Opt(upstream.resolver, "dns")
       /\ (ctxDone /\ Sending) =>
             /\ (JustSent.err # "nil") = Fails(JustSent.info.IP)
             /\ JustSent.err = "nil" =>
                   /\ JustSent.info.Type # "error"
                   /\ JustSent.info.DNS = Opt(upstream.resolver, "dns")
                   /\ \E t \in BagToSet(tasks) :
                         /\ t.pc = "atSend" /\ t.targetIP = JustSent.info.IP
                         /\ JustSent.info.Geolocation = t.geo
                         /\ JustSent.info.ISP = t.isp
       /\ (ctxDone' /\ pc' = "returned") =>
             result'.Summary.Failed = CountIn(request.IPs, Fails)]_vars

C13_Witness ==
    /\ ctxDone /\ upstream = AllUp /\ pc = "collect"
    /\ \E k \in 1..Len(resultChan) :
          /\ resultChan[k].err = "nil"
          /\ resultChan[k].info.Geolocation = "geo"
          /\ resultChan[k].info.ISP = "nil"
          /\ resultChan[k].info.DNS = "dns"

(* C14 as stated: in both fan-outs every per-item resolver call receives   *)
(* the context of the caller: each goroutine of lookupAll calls LookupDNS   *)
(* with the context its caller was given.                                  *)
C14_SharedContext == \A g \in lookups : g.ctx = dnsCall.ctx

(* C15: a lookup of ALL on a non-empty domain returns without error and is *)
(* answered 200; a record type whose lookup fails contributes no record,   *)
(* and when all six fail the record list is empty.                         *)
C15_AllToleratesFailures ==
    AllReturned =>
        /\ dnsRet.err = "nil"
        /\ dnsHpc = "done" => dnsStatus = 200
        /\ \A k \in 1..Len(AllTypes) :
              TypeFails(AllTypes[k]) =>
                  CountIn(dnsRet.result.Records, LAMBDA rec : rec.Type = AllTypes[k]) = 0
        /\ (\A k \in 1..Len(AllTypes) : TypeFails(AllTypes[k])) =>
              dnsRet.result.Records = <<>>

C15_Witness ==
    /\ AllReturned /\ dnsHpc = "done" /\ dnsStatus = 200
    /\ zone = ZoneDown /\ dnsRet.result.Records = <<>>
    /\ resolved = {AllTypes[k] : k \in 1..Len(AllTypes)}

(* C16: the records a lookup of ALL returns are, as a multiset, the union  *)
(* of the record lists of the types A, AAAA, MX, NS, TXT and CNAME whose   *)
(* lookup succeeded, in whatever order the goroutines report.              *)
C16_AllIsUnionOfTypes ==
    AllReturned =>
        BagOfSeq(dnsRet.result.Records) =
            BagOfSeq(RecordsOfType("A")) (+) BagOfSeq(RecordsOfType("AAAA"))
            (+) BagOfSeq(RecordsOfType("MX")) (+) BagOfSeq(RecordsOfType("NS"))
            (+) BagOfSeq(RecordsOfType("TXT")) (+) BagOfSeq(RecordsOfType("CNAME"))

C16_Witness ==
    /\ AllReturned /\ zone = ZoneFull
    /\ Len(dnsRet.result.Records) = 7
    /\ dnsRet.result.Records[1] = DNSRecord("example.com", "CNAME", "example.com.")
    /\ dnsRet.result.Records[2] = DNSRecord("example.com", "MX", "10 mail.example.com.")
    /\ dnsRet.result.Records[7] = DNSRecord("example.com", "A", "1.1.1.1")

(* C20: the DNS lookup endpoint, GET or POST, answers 400 to an empty      *)
(* domain without calling the service or any resolver; with a non-empty    *)
(* domain and no record type it calls the service with the type A, and     *)
(* the service, once it has run, has looked up the type A and nothing      *)
(* else, whose outcome the endpoint answers with.                          *)
C20_DomainRequiredTypeDefaultsToA ==
    (dnsHpc \notin {"idle", "start"} /\ ~dnsRequest.malformed) =>
        /\ dnsRequest.domain = "" =>
              /\ dnsHpc = "done" /\ dnsStatus = 400
              /\ dnsCall = NoCall /\ dnsPc = "idle"
              /\ lookups = {} /\ resolved = {}
              /\ ~ENABLED NextDNS
        /\ (dnsRequest.domain # "" /\ dnsRequest.type = "") =>
              /\ dnsCall.recordType = "A" /\ dnsCall.domain = dnsRequest.domain
              /\ lookups = {}
              /\ dnsPc \in {"called", "returned"}
              /\ dnsPc = "called" =>
                    /\ resolved = {} /\ dnsRet = NoReturn /\ dnsHpc = "calling"
              /\ dnsPc = "returned" =>
                    /\ resolved = {"A"}
                    /\ dnsRet.asked
                    /\ (dnsRet.err = "nil") = zone.ip.ok
                    /\ dnsRet.err = "nil" =>
                          /\ dnsRet.result.Domain = dnsRequest.domain
                          /\ \A k \in 1..Len(dnsRet.result.Records) :
                                dnsRet.result.Records[k].Type = "A"
              /\ dnsHpc = "done" =>
                    /\ dnsPc = "returned"
                    /\ dnsStatus = (IF zone.ip.ok THEN 200 ELSE 500)

C20_Witness ==
    /\ dnsHpc = "done" /\ dnsStatus = 200
    /\ dnsRequest.method = "GET"
    /\ dnsRequest.domain = "example.com" /\ dnsRequest.type = ""
    /\ dnsCall.recordType = "A" /\ resolved = {"A"}
    /\ dnsRet.result.Records # <<>>
    /\ \A k \in 1..Len(dnsRet.result.Records) : dnsRet.result.Records[k].Type = "A"

(* C17: BulkAnalyzeIPs starts one goroutine per position of the list, each *)
(* goroutine calls AnalyzeIP once and yields one outcome: for every target *)
(* the calls made never exceed its positions, each call has one outcome,   *)
(* and at the return the calls made are exactly its positions.             *)
C17_EachTargetOnce ==
    pc # "idle" =>
        \A t \in Targets :
            /\ TasksFor(tasks, t, "waiting") + Calling(t) + Attempts(t) = Submitted(t)
            /\ Outcomes(t) = Attempts(t)
            /\ Returned => Attempts(t) = Submitted(t)

C17_Witness ==
    /\ Returned /\ request.IPs = <<"not-an-ip", "not-an-ip">>
    /\ Attempts("not-an-ip") = 2 /\ FailureEntries("not-an-ip") = 2

(* C18: two invocations of BulkAnalyzeIPs on the same list, with the same  *)
(* resolver, return the same Successful and Failed counts, whatever the    *)
(* schedule of either.                                                     *)
C18_SameInputSameCounts ==
    (inv[1].pc = "returned" /\ inv[2].pc = "returned" /\ inv[1].IPs = inv[2].IPs) =>
        /\ inv[1].result.Summary.Successful = inv[2].result.Summary.Successful
        /\ inv[1].result.Summary.Failed = inv[2].result.Summary.Failed

C18_Witness ==
    /\ inv[1].pc = "returned" /\ inv[2].pc = "returned"
    /\ inv[1].IPs = <<"1.1.1.1", "not-an-ip">> /\ inv[2].IPs = inv[1].IPs
    /\ inv[1].result.Results[1].IP = "1.1.1.1"
    /\ inv[2].result.Results[1].IP = "not-an-ip"

(* C19: two concurrent invocations of BulkAnalyzeIPs do not share their    *)
(* semaphore or their result channel: each semaphore counts the goroutines *)
(* of its own invocation, each invocation holds the outcomes of its own    *)
(* goroutines only, and returns the outcomes of its own targets.           *)
C19_InvocationsIsolated ==
    \A k \in Invocations :
        /\ inv[k].semaphore = Holding(inv[k].tasks)
        /\ HeldBy(k) = SentBy(k)
        /\ inv[k].pc = "returned" =>
              BagOfSeq(IPsOf(inv[k].result.Results)) = BagOfSeq(inv[k].IPs)

C19_Witness ==
    /\ inv[1].pc = "collect" /\ inv[2].pc = "collect"
    /\ inv[1].IPs = <<"1.1.1.1", "not-an-ip">> /\ inv[2].IPs = <<"8.8.8.8">>
    /\ inv[1].semaphore = 1 /\ inv[2].semaphore = 1
    /\ Len(inv[1].resultChan) = 1 /\ Len(inv[2].resultChan) = 1

(* C21: when every resolver call returns, BulkAnalyzeIPs terminates, for   *)
(* every N, also N > 10: every goroutine waiting for a token is eventually *)
(* admitted, every goroutine eventually ends, and the collector eventually *)
(* has received all N outcomes and returns.                                *)
C21_Terminates ==
    (pc = "collect") ~> (Returned /\ i = N /\ Finished = N /\ semaphore = 0)

C21_Witness ==
    /\ Returned /\ N > SemaphoreCap /\ i = N /\ Finished = N /\ semaphore = 0
    /\ hpc = "done"

(* C22: a goroutine gives its token back only after it has sent its        *)
(* outcome, and the send of a goroutine that holds a token is never        *)
(* blocked, the channel having room for all N outcomes: whatever the       *)
(* collector has done, a goroutine whose AnalyzeIP has returned can send.  *)
C22_SendBeforeReleaseNeverBlocks ==
    /\ Finished <= Len(resultChan) + Len(result.Results)
    /\ semaphore + Finished = Running + Len(resultChan) + Len(result.Results)
    /\ Len(resultChan) <= N
    /\ Running > 0 => Len(resultChan) + Len(result.Results) < N
    /\ \A t \in BagToSet(tasks) :
          (t.pc = "atSend" \/ (t.pc = "running" /\ Fails(t.targetIP))) =>
              ENABLED Resolve(t)

C22_Witness ==
    /\ Running = 1 /\ Len(resultChan) = SemaphoreCap /\ i = 0
    /\ N > SemaphoreCap /\ Finished = SemaphoreCap

(* C23: lookupAll starts one goroutine for each of the six record types A, *)
(* AAAA, MX, NS, TXT and CNAME; each sends one result, the records of its  *)
(* type or an empty list; a goroutine that has not sent can send; and      *)
(* lookupAll returns after six receives, no goroutine left unsent.         *)
C23_SixLookupsSixResults ==
    (dnsCall.recordType = "ALL" /\ dnsPc \in {"collect", "returned"}) =>
        LET done == {g \in lookups : g.pc = "done"} IN
        /\ {g.rType : g \in lookups} = {"A", "AAAA", "MX", "NS", "TXT", "CNAME"}
        /\ Cardinality(lookups) = 6
        /\ Len(dnsChan) + dnsI = Cardinality(done)
        /\ resolved = {g.rType : g \in done}
        /\ \A j \in 1..Len(dnsChan) :
              \E g \in done : dnsChan[j] = RecordsOfType(g.rType)
        /\ done # lookups => Len(dnsChan) < 6
        /\ dnsPc = "returned" => (dnsI = 6 /\ done = lookups /\ dnsChan = <<>>)

C23_Witness ==
    /\ AllReturned /\ zone = ZonePartial /\ dnsI = 6
    /\ Len(dnsRet.result.Records) = 3
    /\ \A g \in lookups : g.pc = "done"

(* C24: the entry BulkAnalyzeIPs returns for a failed target holds the     *)
(* target string, Version "Unknown" and Type "error", and nothing else: no *)
(* Geolocation, ISP, Security or DNS, and no field for the error.          *)
C24_FailureMarkerIsGeneric ==
    \A j \in 1..Len(result.Results) :
        LET e == result.Results[j] IN
        /\ DOMAIN e = {"IP", "Version", "Type", "Geolocation", "ISP", "Security", "DNS"}
        /\ (Fails(e.IP) \/ e.Type = "error" \/ e.Version = "Unknown") =>
              /\ e = [IP |-> e.IP, Version |-> "Unknown", Type |-> "error",
                      Geolocation |-> "nil", ISP |-> "nil", Security |-> "nil",
                      DNS |-> "nil"]
              /\ \E k \in 1..N : request.IPs[k] = e.IP /\ Fails(e.IP)

C24_Witness ==
    /\ Returned /\ request.IPs = <<"not-an-ip", "1.1.1.1">>
    /\ result.Results[2] =
          [IP |-> "not-an-ip", Version |-> "Unknown", Type |-> "error",
           Geolocation |-> "nil", ISP |-> "nil", Security |-> "nil", DNS |-> "nil"]
    /\ result.Results[1].Geolocation = "geo"

(* C25: AnalyzeIP returns an error exactly when its input is not the text  *)
(* of an IP address; on success IP, Version, Type and Security are set,    *)
(* and Geolocation, ISP and DNS are each present exactly when their        *)
(* enrichment step succeeded, whatever the other steps did and whenever    *)
(* the context ended.                                                      *)
C25_AnalyzeIPFailsOnlyOnParse ==
    [][svc.op = "AnalyzeIP" =>
          LET a == svc.args
              info == svc'.ret.info
          IN
          /\ (svc.pc = "called" /\ svc'.pc = "atISP") =>
                (svc'.local.geo # "nil")
                    = (~svc.local.done /\ a.up.ipinfo \in {"ok", "nan"})
          /\ (svc.pc = "atISP" /\ svc'.pc = "atDNS") =>
                /\ (svc'.local.isp # "nil") = (~svc.local.done /\ a.up.ipinfo # "down")
                /\ svc'.local.geo = svc.local.geo
          /\ (svc.pc = "atDNS" /\ svc'.pc = "atReturn") =>
                /\ (svc'.local.dns # "nil") = a.up.resolver
                /\ svc'.local.geo = svc.local.geo /\ svc'.local.isp = svc.local.isp
          /\ (svc.pc # "returned" /\ svc'.pc = "returned") =>
                /\ (svc'.ret.err # "nil") = (a.ipStr \notin IPTexts)
                /\ svc'.ret.err = "nil" =>
                      /\ info.IP = a.ipStr
                      /\ info.Version \notin {"", "nil"}
                      /\ info.Type \notin {"", "nil"}
                      /\ info.Security # "nil"
                      /\ info.Geolocation = svc.local.geo
                      /\ info.ISP = svc.local.isp
                      /\ info.DNS = svc.local.dns]_vars

C25_Witness ==
    /\ SvcReturned("AnalyzeIP") /\ svc.args.ipStr = "10.0.0.1"
    /\ svc.args.up = [ipinfo |-> "ok", resolver |-> FALSE]
    /\ ~svc.args.done /\ svc.local.done
    /\ svc.ret.err = "nil"
    /\ svc.ret.info = [IP |-> "10.0.0.1", Version |-> "IPv4", Type |-> "private",
                       Geolocation |-> "geo", ISP |-> "nil", Security |-> "good",
                       DNS |-> "nil"]

(* C26 as stated: every IPInfo the service returns, the entries of a bulk  *)
(* result included, has the Version "IPv4" or "IPv6".                      *)
C26_VersionIsIPv4OrIPv6 ==
    \A j \in 1..Len(result.Results) :
        result.Results[j].Version \in {"IPv4", "IPv6"}

(* C27 as stated: every IPInfo the service returns has a Type that is one  *)
(* of "public", "private" and "reserved".                                  *)
C27_TypeIsPublicPrivateReserved ==
    (SvcReturned("AnalyzeIP") /\ svc.ret.err = "nil") =>
        svc.ret.info.Type \in {"public", "private", "reserved"}

(* C28: LookupDNS returns an error, without asking the resolver, when the  *)
(* domain is empty or the record type is, whatever its case, none of A,    *)
(* AAAA, MX, NS, TXT, CNAME, PTR, ALL; for one supported type other than   *)
(* ALL it returns an error when the resolver fails, and otherwise a result *)
(* with the queried domain and the records of the resolver's answer.       *)
C28_LookupDNSValidates ==
    SvcReturned("LookupDNS") =>
        LET a == svc.args
            r == svc.ret
            rType == TypeOfSpelling(a.recordType)
        IN
        IF a.domain = "" \/ a.recordType \notin SupportedSpellings
        THEN /\ r.err \in {"domain cannot be empty", "unsupported record type"}
             /\ ~r.asked /\ r.result = NoDNSResult
        ELSE /\ r.asked
             /\ (r.err = "nil") = AnswerFor(a.zone, rType).ok
             /\ r.err # "nil" => (r.err = "DNS lookup failed" /\ r.result = NoDNSResult)
             /\ r.err = "nil" =>
                   /\ r.result.Domain = a.domain
                   /\ r.result.Records = lookupType(a.zone, a.domain, rType).records
                   /\ \A k \in 1..Len(r.result.Records) :
                         /\ r.result.Records[k].Name = a.domain
                         /\ r.result.Records[k].Type = rType
                   /\ rType \in {"MX", "NS", "TXT", "PTR"} =>
                         Len(r.result.Records) = Len(AnswerFor(a.zone, rType).vals)

C28_Witness ==
    /\ SvcReturned("LookupDNS") /\ svc.args.zone = ZoneFull
    /\ svc.args.domain = "example.com" /\ svc.args.recordType = "mx"
    /\ svc.ret.err = "nil" /\ svc.ret.result.Domain = "example.com"
    /\ svc.ret.result.Records
          = <<[Name |-> "example.com", Type |-> "MX", Value |-> "10 mail.example.com.",
               TTL |-> 300]>>

(* C29: GetClientIP returns, for the first header in the order            *)
(* CF-Connecting-IP, True-Client-IP, X-Real-IP, X-Forwarded-For,           *)
(* X-Client-IP, X-Forwarded, X-Cluster-Client-IP, Forwarded-For, Forwarded *)
(* whose value, or first comma-separated element, is the text of an IP     *)
(* address, that text; headers whose value is not are skipped; when no     *)
(* header qualifies it returns the host part of the remote address.        *)
C29_FirstValidHeaderElseRemoteHost ==
    SvcReturned("GetClientIP") =>
        LET r == svc.args.r
            q == Qualifying(r)
        IN
        IF q = {} THEN svc.ret = HostPart(r.RemoteAddr)
        ELSE LET first == CHOOSE k \in q : \A j \in q : k <= j IN
             svc.ret = FirstElement(r.Header[Priority[first]])

C29_Witness ==
    /\ SvcReturned("GetClientIP")
    /\ svc.args.r.Header["CF-Connecting-IP"] = "unknown, 1.1.1.1"
    /\ svc.args.r.Header["X-Forwarded-For"] = " 10.0.0.1 ,8.8.8.8"
    /\ svc.args.r.RemoteAddr = "[::1]:4711"
    /\ svc.ret = "10.0.0.1"

====
